---- MODULE Spec2Model ----
(***************************************************************************)
(* PyALTO: the topology model (CoreNetData), the residual-bandwidth cost   *)
(* provider (PathLoadCostProvider) and the node-side routing table parsers *)
(* (nethelpers), as state machines.                                        *)
(*                                                                         *)
(* Python values are encoded as follows.  A dict is a sequence of its      *)
(* items in insertion order (json.loads and dict iteration keep the order  *)
(* of the document).  None is the string "None" where the other values are *)
(* strings or numbers, and the empty tuple where they are tuples.  A call  *)
(* that can raise returns a record [exc |-> <exception name or "none">,    *)
(* val |-> <value>].                                                       *)
(***************************************************************************)
EXTENDS Integers, Sequences, FiniteSets, TLC

VARIABLES
    bridges,    \* CoreNetData._bridges: sequence of links, each <<global_a, global_b>>
    mappings,   \* CoreNetData._mappings: sequence of [host, adapters], adapters a sequence of <<global, local>>
    valid,      \* CoreNetData.valid
    pc,         \* position of the thread running load_data
    data,       \* load_data's local `data`: the description being loaded
    committed,  \* history: the description of the last load_data that has set its first field
    obs,        \* what the last reader of the topology got
    costq,      \* the last call of the residual-bandwidth provider and what it gave
    qlines,     \* router-CLI parser: the input lines
    qres,       \* router-CLI parser: the outcome of _process_quagga_rt / get_quagga_rt
    klines,     \* kernel parser: the lines of /proc/net/route
    kres,       \* kernel parser: the outcome of get_routing_table
    store,      \* two CoreNetData objects: the attributes of the class and of each instance
    ipc,        \* for each instance, the position of its load_data
    idata,      \* for each instance, load_data's local `data`
    iobs        \* what the last query on one of the instances gave

vars == <<bridges, mappings, valid, pc, data, committed, obs, costq, qlines, qres, klines, kres,
          store, ipc, idata, iobs>>

topoVars == <<bridges, mappings, valid, pc, data, committed>>
nodeVars == <<qlines, qres, klines, kres>>
instVars == <<store, ipc, idata, iobs>>

----------------------------------------------------------------------------
(* Python values *)

NoName == "None"
NoTuple == << >>
Some(v) == <<v>>

Min(S) == CHOOSE x \in S : \A y \in S : x <= y
Max(S) == CHOOSE x \in S : \A y \in S : x >= y

SeqsUpTo(S, n) == UNION {[1..k -> S] : k \in 0..n}

----------------------------------------------------------------------------
(* Bounds and the names the inputs are drawn from *)

MaxLinks == 2

Globals == {"g1", "g2", "g3", "g4"}
QueryGlobals == {"g1", "g2", "g3"}
Devices == {"h1", "h2", "h3"}
Locals == {"eth0", "eth1"}

----------------------------------------------------------------------------
(* CoreNetData: the queries, as functions of the two dicts *)

\* self._mappings.get(node_name): the adapter list, or NoTuple wrapped as absent
HasNode(m, node) == \E i \in 1..Len(m) : m[i].host = node
NodeAdapters(m, node) == m[CHOOSE i \in 1..Len(m) : m[i].host = node].adapters

get_nodes_global_name(m, node_name, adapter_name) ==
    IF ~HasNode(m, node_name) THEN NoName
    ELSE LET ads == NodeAdapters(m, node_name)
             hit == {i \in 1..Len(ads) : ads[i][2] = adapter_name}
         IN IF hit = {} THEN NoName ELSE ads[Min(hit)][1]

get_nodes_local_name(m, node_name, adapter_name) ==
    IF ~HasNode(m, node_name) THEN NoName
    ELSE LET ads == NodeAdapters(m, node_name)
             hit == {i \in 1..Len(ads) : ads[i][1] = adapter_name}
         IN IF hit = {} THEN NoName ELSE ads[Min(hit)][2]

\* _get_peer_adapter with the second branch returning the wrong member
PeerAdapterWrongMember(b, glob_adapter) ==
    LET hit == {i \in 1..Len(b) : b[i][1] = glob_adapter \/ b[i][2] = glob_adapter}
    IN IF hit = {} THEN NoName
       ELSE LET l == b[Min(hit)]
            IN IF l[1] = glob_adapter THEN l[2] ELSE l[2]

\* The first link, in dict order, that holds glob_adapter decides.
_get_peer_adapter(b, glob_adapter) ==
    LET hit == {i \in 1..Len(b) : b[i][1] = glob_adapter \/ b[i][2] = glob_adapter}
    IN IF hit = {} THEN NoName
       ELSE LET l == b[Min(hit)]
            IN IF l[1] = glob_adapter THEN l[2] ELSE l[1]

\* The first host, in dict order, and its first adapter that has the name decide.
_get_device_from_globname(m, in_globname) ==
    LET owns(i) == {j \in 1..Len(m[i].adapters) : m[i].adapters[j][1] = in_globname}
        hit == {i \in 1..Len(m) : owns(i) # {}}
    IN IF hit = {} THEN NoTuple
       ELSE LET i == Min(hit)
            IN <<m[i].host, m[i].adapters[Min(owns(i))][2]>>

\* AdapterConnects without the comparison of the remote hostname with dst_device
AdapterConnectsAnyDevice(b, m, ad, dst_device) ==
    LET remote_global == _get_peer_adapter(b, ad[1])
    IN /\ remote_global # NoName
       /\ _get_device_from_globname(m, remote_global) # NoTuple

\* One iteration of get_adapter_names' loop: TRUE when the adapter connects to dst_device.
AdapterConnects(b, m, ad, dst_device) ==
    LET remote_global == _get_peer_adapter(b, ad[1])
    IN /\ remote_global # NoName
       /\ _get_device_from_globname(m, remote_global) # NoTuple
       /\ _get_device_from_globname(m, remote_global)[1] = dst_device

get_adapter_names(b, m, src_device, dst_device) ==
    IF ~HasNode(m, src_device) THEN NoTuple
    ELSE LET ads == NodeAdapters(m, src_device)
             hit == {i \in 1..Len(ads) : AdapterConnects(b, m, ads[i], dst_device)}
         IN IF hit = {} THEN NoTuple
            ELSE LET ad == ads[Min(hit)]
                     remote_global == _get_peer_adapter(b, ad[1])
                 IN <<ad, <<remote_global,
                            get_nodes_local_name(m, dst_device, remote_global)>>>>

\* get_remote_peer without the comparison of loc_name with src_loc_intf
GetRemotePeerAnyAdapter(b, m, src_name, src_loc_intf) ==
    IF ~HasNode(m, src_name) THEN NoTuple
    ELSE LET ads == NodeAdapters(m, src_name)
             ok(i) == /\ _get_peer_adapter(b, ads[i][1]) # NoName
                      /\ _get_device_from_globname(m, _get_peer_adapter(b, ads[i][1])) # NoTuple
             hit == {i \in 1..Len(ads) : ok(i)}
         IN IF hit = {} THEN NoTuple
            ELSE _get_device_from_globname(m, _get_peer_adapter(b, ads[Min(hit)][1]))

get_remote_peer(b, m, src_name, src_loc_intf) ==
    IF ~HasNode(m, src_name) THEN NoTuple
    ELSE LET ads == NodeAdapters(m, src_name)
             ok(i) == /\ ads[i][2] = src_loc_intf
                      /\ _get_peer_adapter(b, ads[i][1]) # NoName
                      /\ _get_device_from_globname(m, _get_peer_adapter(b, ads[i][1])) # NoTuple
             hit == {i \in 1..Len(ads) : ok(i)}
         IN IF hit = {} THEN NoTuple
            ELSE _get_device_from_globname(m, _get_peer_adapter(b, ads[Min(hit)][1]))

\* any(adapters): some element of the list is truthy (a non-empty string)
AnyTruthy(adapters) == \E i \in 1..Len(adapters) : adapters[i] # ""

\* _validate logs an error and returns at the first bad bridge; it returns nothing.
\* The value here is what it found: TRUE when no error was logged.
_validate(b, m) ==
    \A i \in 1..Len(b) :
        /\ AnyTruthy(b[i])
        /\ _get_device_from_globname(m, b[i][1]) # NoTuple
        /\ _get_device_from_globname(m, b[i][2]) # NoTuple

----------------------------------------------------------------------------
(* Topology descriptions: the JSON documents load_data reads *)

Host(h, ads) == [host |-> h, adapters |-> ads]
Desc(l, n) == [links |-> l, names |-> n]

EmptyDesc == Desc(<< >>, << >>)

NamesLine == <<Host("h1", << <<"g1", "eth0">> >>),
               Host("h2", << <<"g2", "eth0">>, <<"g3", "eth1">> >>),
               Host("h3", << <<"g4", "eth0">> >>)>>
NamesPair == <<Host("h1", << <<"g1", "eth0">>, <<"g3", "eth1">> >>),
               Host("h2", << <<"g2", "eth0">> >>)>>
NamesStar == <<Host("h1", << <<"g1", "eth0">> >>),
               Host("h2", << <<"g2", "eth0">> >>),
               Host("h3", << <<"g3", "eth0">> >>)>>
NamesTwice == <<Host("h1", << <<"g1", "eth0">>, <<"g2", "eth0">> >>),
                Host("h2", << <<"g1", "eth1">>, <<"g3", "eth0">> >>)>>

\* Descriptions of the reload scenarios: a line h1-h2-h3, the same hosts wired
\* the other way, a pair, a pair with a link to an adapter no host has, and a
\* bridge without adapters.
TopoLine == Desc(<< <<"g1", "g2">>, <<"g3", "g4">> >>, NamesLine)
TopoCross == Desc(<< <<"g1", "g4">>, <<"g2", "g3">> >>, NamesLine)
TopoPair == Desc(<< <<"g1", "g2">> >>, NamesPair)
TopoDangling == Desc(<< <<"g1", "g2">>, <<"g3", "g4">> >>, NamesPair)
TopoNoAdapters == Desc(<< <<"", "">>, <<"g1", "g2">> >>, NamesStar)

Descs == {TopoLine, TopoCross, TopoPair, TopoDangling, TopoNoAdapters}

\* Link dicts of up to MaxLinks links over QueryGlobals, in every order
LinkMaps == SeqsUpTo(QueryGlobals \X QueryGlobals, MaxLinks)
NamesShort == <<Host("h1", << <<"g1", "eth0">> >>),
                Host("h2", << <<"g2", "eth0">> >>)>>
NameMaps == {NamesPair, NamesStar, NamesTwice, NamesShort}
QueryDescs == {Desc(l, n) : l \in LinkMaps, n \in NameMaps}

----------------------------------------------------------------------------
(* CoreNetData.load_data, statement by statement, and the readers *)

NoQuery == [op |-> "none", path |-> << >>, srcs |-> {}, dsts |-> {}, net |-> << >>,
            valid |-> FALSE, out |-> << >>]

NoObs == [op |-> "none", arg |-> << >>, res |-> << >>, valid |-> FALSE]

\* The result a reader's query gives on the dicts b, m
QueryResult(op, arg, b, m) ==
    CASE op = "peer" -> Some(_get_peer_adapter(b, arg[1]))
      [] op = "device" -> Some(_get_device_from_globname(m, arg[1]))
      [] op = "adapters" -> Some(get_adapter_names(b, m, arg[1], arg[2]))
      [] op = "remote" -> Some(get_remote_peer(b, m, arg[1], arg[2]))
      [] op = "local" -> Some(get_nodes_local_name(m, arg[1], arg[2]))
      [] op = "global" -> Some(get_nodes_global_name(m, arg[1], arg[2]))

TopoInit ==
    /\ bridges = << >>
    /\ mappings = << >>
    /\ valid = FALSE
    /\ pc = "idle"
    /\ data = EmptyDesc
    /\ committed = EmptyDesc

OtherInit ==
    /\ obs = NoObs
    /\ costq = NoQuery
    /\ qlines = << >>
    /\ qres = [exc |-> "none", ret |-> "idle", emitted |-> << >>]
    /\ klines = << >>
    /\ kres = [exc |-> "none", ret |-> "idle", emitted |-> << >>, logged |-> 0]

\* lines 39-43: the file is read and self._bridges is assigned
LoadLinks(d) ==
    /\ pc = "idle"
    /\ data' = d
    /\ committed' = Desc(bridges, mappings)
    /\ bridges' = d.links
    /\ pc' = "links"
    /\ UNCHANGED <<mappings, valid, obs, costq, nodeVars, instVars>>

\* line 44
LoadNames ==
    /\ pc = "links"
    /\ mappings' = data.names
    /\ pc' = "names"
    /\ UNCHANGED <<bridges, valid, data, committed, obs, costq, nodeVars, instVars>>

\* line 46: _validate returns nothing and raises nothing
LoadValidate ==
    /\ pc = "names"
    /\ pc' = "validated"
    /\ UNCHANGED <<bridges, mappings, valid, data, committed, obs, costq, nodeVars, instVars>>

\* line 47
LoadValid ==
    /\ pc = "validated"
    /\ valid' = TRUE
    /\ pc' = "idle"
    /\ committed' = data
    /\ UNCHANGED <<bridges, mappings, data, obs, costq, nodeVars, instVars>>

Read(op, arg) ==
    /\ obs' = [op |-> op, arg |-> arg, res |-> QueryResult(op, arg, bridges, mappings),
               valid |-> valid]
    /\ UNCHANGED <<topoVars, costq, nodeVars, instVars>>

ReadPeer == \E g \in Globals : Read("peer", <<g>>)
ReadDevice == \E g \in Globals : Read("device", <<g>>)
ReadAdapters == \E a \in Devices, b \in Devices : Read("adapters", <<a, b>>)
ReadRemote == \E a \in Devices, l \in Locals : Read("remote", <<a, l>>)

----------------------------------------------------------------------------
(* Two CoreNetData objects.  _bridges, _mappings and valid are attributes of  *)
(* the class; `self.x = v` sets the attribute x of the instance, and `self.x` *)
(* reads the attribute of the instance if it has one, else that of the class. *)

Instances == {"a", "b"}

ClassAttributes == ("_bridges" :> << >>) @@ ("_mappings" :> << >>) @@ ("valid" :> FALSE)

\* self.name, self being instance i
GetAttr(st, i, name) ==
    IF name \in DOMAIN st.inst[i] THEN st.inst[i][name] ELSE st.cls[name]

\* self.name = val with the assignment made on the class, CoreNetData.name = val
SetAttrOnClass(st, i, name, val) == [st EXCEPT !.cls = (name :> val) @@ @]

\* self.name = val, self being instance i
SetAttr(st, i, name, val) == [st EXCEPT !.inst[i] = (name :> val) @@ @]

NoInstanceObs == [inst |-> "none", op |-> "none", arg |-> << >>, res |-> << >>]

InstanceInit ==
    /\ store = [cls |-> ClassAttributes, inst |-> [i \in Instances |-> << >>]]
    /\ ipc = [i \in Instances |-> "idle"]
    /\ idata = [i \in Instances |-> EmptyDesc]
    /\ iobs = NoInstanceObs

InstanceDescs == {TopoLine, TopoPair}

\* lines 39-43 on instance i
LoadLinksOn(i, d) ==
    /\ ipc[i] = "idle"
    /\ idata' = [idata EXCEPT ![i] = d]
    /\ store' = SetAttr(store, i, "_bridges", d.links)
    /\ ipc' = [ipc EXCEPT ![i] = "links"]
    /\ UNCHANGED <<iobs, topoVars, obs, costq, nodeVars>>

\* line 44 on instance i
LoadNamesOn(i) ==
    /\ ipc[i] = "links"
    /\ store' = SetAttr(store, i, "_mappings", idata[i].names)
    /\ ipc' = [ipc EXCEPT ![i] = "names"]
    /\ UNCHANGED <<idata, iobs, topoVars, obs, costq, nodeVars>>

\* line 46 on instance i
LoadValidateOn(i) ==
    /\ ipc[i] = "names"
    /\ ipc' = [ipc EXCEPT ![i] = "validated"]
    /\ UNCHANGED <<store, idata, iobs, topoVars, obs, costq, nodeVars>>

\* line 47 on instance i
LoadValidOn(i) ==
    /\ ipc[i] = "validated"
    /\ store' = SetAttr(store, i, "valid", TRUE)
    /\ ipc' = [ipc EXCEPT ![i] = "idle"]
    /\ UNCHANGED <<idata, iobs, topoVars, obs, costq, nodeVars>>

\* A query on instance i: the queries read self._bridges and self._mappings
\* and assign nothing
ReadOn(i, op, arg) ==
    /\ iobs' = [inst |-> i, op |-> op, arg |-> arg,
                res |-> QueryResult(op, arg, GetAttr(store, i, "_bridges"),
                                    GetAttr(store, i, "_mappings"))]
    /\ UNCHANGED <<store, ipc, idata, topoVars, obs, costq, nodeVars>>

ReadPeerOn(i) == \E g \in Globals : ReadOn(i, "peer", <<g>>)
ReadAdaptersOn(i) == \E a \in Devices, b \in Devices : ReadOn(i, "adapters", <<a, b>>)
ReadRemoteOn(i) == \E a \in Devices, l \in Locals : ReadOn(i, "remote", <<a, l>>)

Init == TopoInit /\ OtherInit /\ InstanceInit

NextInstances ==
    \/ \E i \in Instances, d \in InstanceDescs : LoadLinksOn(i, d)
    \/ \E i \in Instances : LoadNamesOn(i)
    \/ \E i \in Instances : LoadValidateOn(i)
    \/ \E i \in Instances : LoadValidOn(i)
    \/ \E i \in Instances : ReadPeerOn(i)
    \/ \E i \in Instances : ReadAdaptersOn(i)
    \/ \E i \in Instances : ReadRemoteOn(i)

SpecInstances == Init /\ [][NextInstances]_vars


Next ==
    \/ \E d \in Descs : LoadLinks(d)
    \/ LoadNames
    \/ LoadValidate
    \/ LoadValid
    \/ ReadPeer
    \/ ReadDevice
    \/ ReadAdapters
    \/ ReadRemote

Spec == Init /\ [][Next]_vars

----------------------------------------------------------------------------
(* The topology queries on a loaded description, one thread *)

\* load_data as one step: lines 39-47 with no other thread in between
LoadData(d) ==
    /\ pc = "idle"
    /\ ~valid
    /\ data' = d
    /\ bridges' = d.links
    /\ mappings' = d.names
    /\ valid' = TRUE
    /\ committed' = d
    /\ obs' = NoObs
    /\ UNCHANGED <<pc, costq, nodeVars, instVars>>

ReadLocal == \E a \in Devices, g \in Globals : Read("local", <<a, g>>)
ReadGlobal == \E a \in Devices, l \in Locals : Read("global", <<a, l>>)

NextQuery ==
    \/ ~valid /\ \E d \in QueryDescs : LoadData(d)
    \/ ReadPeer
    \/ ReadDevice
    \/ ReadAdapters
    \/ ReadRemote
    \/ ReadLocal
    \/ ReadGlobal

SpecQuery == Init /\ [][NextQuery]_vars

----------------------------------------------------------------------------
(* The network map the cost provider reads (altoserver.nm): device classes,   *)
(* link capacities, live load samples and the routes the path resolver walks  *)

MaxPath == 3
MaxSamples == 2
MaxEndpoints == 2

CapValues == {1, 2}
LoadValues == {1, 3}

\* The links of the network map that may carry a capacity, either direction
CostLinks == {<<"h1", "h2">>, <<"h2", "h3">>}
\* The (device, local adapter) pairs that may have uploaded a sample: the
\* two adapters of the middle device of the line
LoadAdapters == {<<"h2", "eth0">>, <<"h2", "eth1">>}
LoadKeys == {<<a[1], a[2], dir>> : a \in LoadAdapters, dir \in {"tx", "rx"}}

TypeMaps == [Devices -> {"user", "router"}]
CapMaps == [CostLinks -> {NoTuple} \cup {Some(c) : c \in CapValues}]
LoadMaps == UNION {[K -> LoadValues] : K \in {S \in SUBSET LoadKeys : Cardinality(S) <= MaxSamples}}

\* nm.get_out_edges(from_node): the edges (a_node, b_node, params) that leave
\* from_node; params.get('capacity') is the third member
get_out_edges(caps, from_node) ==
    {<<from_node, l[2], caps[l]>> : l \in {k \in CostLinks : k[1] = from_node}}
    \cup {<<from_node, l[1], caps[l]>> : l \in {k \in CostLinks : k[2] = from_node}}

\* node.get_adapter_tx_load(local) / node.get_adapter_rx_load(local)
get_adapter_tx_load(loads, node, local) ==
    IF <<node, local, "tx">> \in DOMAIN loads THEN Some(loads[<<node, local, "tx">>]) ELSE NoTuple
get_adapter_rx_load(loads, node, local) ==
    IF <<node, local, "rx">> \in DOMAIN loads THEN Some(loads[<<node, local, "rx">>]) ELSE NoTuple

\* The routes of the devices: up is the set of links that forward; the next
\* hop of cur towards dst along the line h1-h2-h3, or NoName without a route.
NextHop(up, cur, dst) ==
    CASE cur = "h1" -> IF <<"h1", "h2">> \in up THEN "h2" ELSE NoName
      [] cur = "h3" -> IF <<"h2", "h3">> \in up THEN "h2" ELSE NoName
      [] cur = "h2" /\ dst = "h1" -> IF <<"h1", "h2">> \in up THEN "h1" ELSE NoName
      [] cur = "h2" /\ dst = "h3" -> IF <<"h2", "h3">> \in up THEN "h3" ELSE NoName
      [] OTHER -> NoName

RECURSIVE Walk(_, _, _)
Walk(up, path, dst) ==
    LET cur == path[Len(path)]
    IN IF cur = dst \/ NextHop(up, cur, dst) = NoName \/ Len(path) >= MaxPath
       THEN path
       ELSE Walk(up, Append(path, NextHop(up, cur, dst)), dst)

\* nm.dev_to_dev_iterator(src, dst), collected: the devices from src on
dev_to_dev_iterator(up, src, dst) == Walk(up, <<src>>, dst)

Net(t, c, l, u) == [types |-> t, caps |-> c, loads |-> l, up |-> u]

----------------------------------------------------------------------------
(* PathLoadCostProvider *)

Raise(e) == [exc |-> e, val |-> NoTuple]
Return(v) == [exc |-> "none", val |-> v]

get_link_capacity(caps, from_node, to_node) ==
    LET out == {e \in get_out_edges(caps, from_node) : e[2] = to_node}
    IN IF out = {} THEN NoTuple ELSE (CHOOSE e \in out : TRUE)[3]

\* SegmentResidual without the floor: cap - load in place of max([0, cap - load])
SegmentResidualNoFloor(b, m, net, node_a, node_b) ==
    LET cap_a_to_b == get_link_capacity(net.caps, node_a, node_b)
        adapters == get_adapter_names(b, m, node_a, node_b)
        load == IF net.types[node_b] = "user"
                THEN get_adapter_tx_load(net.loads, node_a, adapters[1][2])
                ELSE get_adapter_rx_load(net.loads, node_b, adapters[2][2])
    IN IF cap_a_to_b = NoTuple THEN NoTuple
       ELSE IF net.types[node_a] = "user" /\ net.types[node_b] = "user" THEN cap_a_to_b
       ELSE IF adapters = NoTuple THEN NoTuple
       ELSE IF load = NoTuple THEN cap_a_to_b
       ELSE Some(cap_a_to_b[1] - load[1])

\* SegmentResidual with the operands swapped: max([0, load - cap])
SegmentResidualSwapped(b, m, net, node_a, node_b) ==
    LET cap_a_to_b == get_link_capacity(net.caps, node_a, node_b)
        adapters == get_adapter_names(b, m, node_a, node_b)
        load == IF net.types[node_b] = "user"
                THEN get_adapter_tx_load(net.loads, node_a, adapters[1][2])
                ELSE get_adapter_rx_load(net.loads, node_b, adapters[2][2])
    IN IF cap_a_to_b = NoTuple THEN NoTuple
       ELSE IF net.types[node_a] = "user" /\ net.types[node_b] = "user" THEN cap_a_to_b
       ELSE IF adapters = NoTuple THEN NoTuple
       ELSE IF load = NoTuple THEN cap_a_to_b
       ELSE Some(Max({0, load[1] - cap_a_to_b[1]}))

\* One turn of the loop of get_residual_bw_for_path: the number appended to
\* residual_bws, or NoTuple where the function returns None.
SegmentResidual(b, m, net, node_a, node_b) ==
    LET cap_a_to_b == get_link_capacity(net.caps, node_a, node_b)
        adapters == get_adapter_names(b, m, node_a, node_b)
        load == IF net.types[node_b] = "user"
                THEN get_adapter_tx_load(net.loads, node_a, adapters[1][2])
                ELSE get_adapter_rx_load(net.loads, node_b, adapters[2][2])
    IN IF cap_a_to_b = NoTuple THEN NoTuple
       ELSE IF net.types[node_a] = "user" /\ net.types[node_b] = "user" THEN cap_a_to_b
       ELSE IF adapters = NoTuple THEN NoTuple
       ELSE IF load = NoTuple THEN cap_a_to_b
       ELSE Some(Max({0, cap_a_to_b[1] - load[1]}))

\* path is the dict {index -> node}, here the sequence of its values
get_residual_bw_for_path(b, m, net, path) ==
    LET residual_bws == [i \in 1..(Len(path) - 1) |->
                            SegmentResidual(b, m, net, path[i], path[i + 1])]
    IN IF Len(path) = 0 THEN Raise("KeyError")
       ELSE IF \E i \in DOMAIN residual_bws : residual_bws[i] = NoTuple THEN Return(NoTuple)
       ELSE IF Len(path) = 1 THEN Raise("ValueError")
       ELSE Return(Some(Min({residual_bws[i][1] : i \in DOMAIN residual_bws})))

\* The residual bandwidth get_cost computes for one (src, dst)
PairCost(b, m, net, src, dst) ==
    get_residual_bw_for_path(b, m, net, dev_to_dev_iterator(net.up, src, dst))

\* get_cost with `if not rbw` for `if rbw is None`: a residual bandwidth of 0 is skipped
GetCostSkipsZero(b, m, net, srcs, dsts) ==
    LET this_src(src) == [dst \in {d \in dsts : PairCost(b, m, net, src, d).val \notin {NoTuple, Some(0)}}
                            |-> PairCost(b, m, net, src, dst).val[1]]
        raising == {p \in srcs \X dsts : PairCost(b, m, net, p[1], p[2]).exc # "none"}
    IN IF raising # {}
       THEN Raise(PairCost(b, m, net, (CHOOSE p \in raising : TRUE)[1],
                           (CHOOSE p \in raising : TRUE)[2]).exc)
       ELSE Return([src \in {x \in srcs : \E k \in DOMAIN this_src(x) : k # ""}
                        |-> this_src(src)])

\* get_cost: the costmap {src -> {dst -> rbw}} as a function of functions, or
\* the exception of the first pair that raises.  srcs and dsts are the sets of
\* the endpoints of the two lists: every pair is computed unless one raises.
get_cost(b, m, net, srcs, dsts) ==
    LET this_src(src) == [dst \in {d \in dsts : PairCost(b, m, net, src, d).val # NoTuple}
                            |-> PairCost(b, m, net, src, dst).val[1]]
        raising == {p \in srcs \X dsts : PairCost(b, m, net, p[1], p[2]).exc # "none"}
    IN IF raising # {}
       THEN Raise(PairCost(b, m, net, (CHOOSE p \in raising : TRUE)[1],
                           (CHOOSE p \in raising : TRUE)[2]).exc)
       ELSE Return([src \in {x \in srcs : \E k \in DOMAIN this_src(x) : k # ""}
                        |-> this_src(src)])

\* A call of get_residual_bw_for_path on the current topology
ResidualBw(path, net) ==
    /\ costq = NoQuery
    /\ costq' = [op |-> "residual", path |-> path, srcs |-> {}, dsts |-> {}, net |-> net,
                 valid |-> valid,
                 out |-> get_residual_bw_for_path(bridges, mappings, net, path)]
    /\ UNCHANGED <<topoVars, obs, nodeVars, instVars>>

\* A call of get_cost on the current topology
GetCost(srcs, dsts, net) ==
    /\ costq = NoQuery
    /\ costq' = [op |-> "get_cost", path |-> << >>, srcs |-> srcs, dsts |-> dsts, net |-> net,
                 valid |-> valid,
                 out |-> get_cost(bridges, mappings, net, srcs, dsts)]
    /\ UNCHANGED <<topoVars, obs, nodeVars, instVars>>

\* The response has gone out
CostDone ==
    /\ costq # NoQuery
    /\ costq' = NoQuery
    /\ UNCHANGED <<topoVars, obs, nodeVars, instVars>>

\* The paths of up to MaxPath devices in which a device never follows itself
Paths == {p \in SeqsUpTo(Devices, MaxPath) \ {<< >>} :
             \A i \in 1..(Len(p) - 1) : p[i] # p[i + 1]}
Endpoints == {S \in SUBSET Devices : S # {} /\ Cardinality(S) <= MaxEndpoints}

CostDescs == {TopoLine, TopoDangling}

\* get_residual_bw_for_path on every path, device class, capacity and load
ResidualNets == {Net(t, c, l, {}) : t \in TypeMaps, c \in CapMaps, l \in LoadMaps}

\* The topology is loaded at startup and the requests come after it (the
\* provider itself never reads the valid flag).
NextResidual ==
    \/ ~valid /\ \E d \in {TopoLine} : LoadData(d)
    \/ valid /\ costq = NoQuery /\ \E path \in Paths, net \in ResidualNets :
                                        ResidualBw(path, net)
    \/ CostDone

SpecResidual == Init /\ [][NextResidual]_vars

\* get_cost while the topology is being loaded
UniformLoads == {[k \in {} |-> 0]} \cup {[k \in LoadKeys |-> v] : v \in LoadValues}
CostNets == {Net(t, c, l, u) : t \in TypeMaps,
                               c \in [CostLinks -> {NoTuple, Some(2)}],
                               l \in UniformLoads,
                               u \in SUBSET CostLinks}

NextCost ==
    \/ ~valid /\ \E d \in CostDescs : LoadLinks(d)
    \/ LoadNames
    \/ LoadValidate
    \/ LoadValid
    \/ costq = NoQuery /\ \E srcs \in Endpoints, dsts \in Endpoints, net \in CostNets :
                                GetCost(srcs, dsts, net)
    \/ CostDone

SpecCost == Init /\ [][NextCost]_vars

\* get_cost requests on a topology loaded at startup
NextCostMap ==
    \/ ~valid /\ \E d \in CostDescs : LoadData(d)
    \/ valid /\ costq = NoQuery /\ \E srcs \in Endpoints, dsts \in Endpoints, net \in CostNets :
                                          GetCost(srcs, dsts, net)
    \/ CostDone

SpecCostMap == Init /\ [][NextCostMap]_vars

----------------------------------------------------------------------------
(* nethelpers: the router-CLI ("sh ip route") parser.  A line is the        *)
(* sequence of its tokens, line.split(' '); the line itself is the tokens   *)
(* joined by single spaces, so a leading space gives a leading empty token. *)

MaxData == 3
HeaderLines == 4
MinLines == 5

\* The first characters of a token, three at most: enough for line[0..2]
FirstChars(t) ==
    CASE t = "" -> << >>
      [] t = "*" -> <<"*">>
      [] t = "O" -> <<"O">>
      [] t = "O>*" -> <<"O", ">", "*">>
      [] t = "C>*" -> <<"C", ">", "*">>
      [] t = "S>*" -> <<"S", ">", "*">>
      [] t = "Codes:" -> <<"C", "o", "d">>
      [] t = "is" -> <<"i", "s">>
      [] t = "via" -> <<"v", "i", "a">>
      [] t \in {"10.0.0.0/24", "10.0.1.0/24", "10.0.1.1,", "10.0.2.1,"} -> <<"1", "0", ".">>
      [] t \in {"[110/20]", "[110/10]"} -> <<"[", "1", "1">>
      [] t \in {"eth0", "eth0,", "eth1", "eth1,"} -> <<"e", "t", "h">>
      [] t = "directly" -> <<"d", "i", "r">>
      [] t = "connected," -> <<"c", "o", "n">>
      [] t = "unreachable" -> <<"u", "n", "r">>
      [] t = "00:01:02" -> <<"0", "0", ":">>

\* The first three characters of the line with these tokens, fewer if it is shorter
RECURSIVE LineChars(_)
LineChars(tokens) ==
    IF tokens = << >> THEN << >>
    ELSE LET rest == IF Len(tokens) = 1 THEN << >> ELSE <<" ">> \o LineChars(Tail(tokens))
             all == FirstChars(tokens[1]) \o rest
         IN SubSeq(all, 1, IF Len(all) < 3 THEN Len(all) ELSE 3)

\* tokens[k] with Python's indexing, k counted from 0 and from the end when
\* negative: the token, or NoTuple for IndexError
PyIndex(tokens, k) ==
    IF 0 <= k /\ k < Len(tokens) THEN Some(tokens[k + 1])
    ELSE IF k < 0 /\ -k <= Len(tokens) THEN Some(tokens[Len(tokens) + k + 1])
    ELSE NoTuple

\* token.strip(',')
StripComma(t) ==
    CASE t = "10.0.1.1," -> "10.0.1.1"
      [] t = "10.0.2.1," -> "10.0.2.1"
      [] t = "eth0," -> "eth0"
      [] t = "eth1," -> "eth1"
      [] t = "connected," -> "connected"
      [] OTHER -> t

\* (ad, rd) = token.strip('[]').split('/'); int(ad), int(rd): the two
\* numbers, or NoTuple for ValueError (not two parts, or a part no integer)
ParseADRD(t) ==
    CASE t = "[110/20]" -> Some(<<110, 20>>)
      [] t = "[110/10]" -> Some(<<110, 10>>)
      [] OTHER -> NoTuple

\* The locals of _process_quagga_rt.  bound: subnet, adapter, ad, rd and gw
\* have been assigned by some line (they keep their values from line to line).
ParserStart ==
    [out |-> << >>, exc |-> "none",
     last_proto |-> NoName, last_subnet |-> NoName, last_ad |-> NoTuple, last_rd |-> NoTuple,
     cached |-> FALSE, bound |-> FALSE,
     subnet |-> NoName, adapter |-> NoName, ad |-> NoTuple, rd |-> NoTuple, gw |-> NoName]

Fail(st, e) == [st EXCEPT !.exc = e]

Positions(tokens, word) == {i \in 1..Len(tokens) : tokens[i] = word}

\* lines 262-273: the type code, or the cached one on a continuation line
TypeCode(st, chars) ==
    IF chars[1] = " "
    THEN [st EXCEPT !.cached = TRUE]
    ELSE [st EXCEPT !.last_proto = chars[1], !.last_subnet = NoName,
                    !.last_ad = NoTuple, !.last_rd = NoTuple, !.cached = FALSE]

\* lines 285-295: proto 'C', the first 'is' token at 0-based index num
Connected(st, tokens, num) ==
    IF PyIndex(tokens, num + 3) = NoTuple THEN Fail(st, "IndexError")
    ELSE [st EXCEPT !.subnet = PyIndex(tokens, num - 1)[1],
                    !.last_subnet = PyIndex(tokens, num - 1)[1],
                    !.adapter = PyIndex(tokens, num + 3)[1],
                    !.ad = NoTuple, !.rd = NoTuple, !.gw = NoName, !.bound = TRUE]

\* lines 300-319: the first 'via' token at 0-based index num
Via(st, tokens, num) ==
    LET parsed == IF st.cached THEN st
                  ELSE IF PyIndex(tokens, num - 2) = NoTuple THEN Fail(st, "IndexError")
                  ELSE IF ParseADRD(PyIndex(tokens, num - 1)[1]) = NoTuple
                  THEN Fail(st, "ValueError")
                  ELSE LET adrd == ParseADRD(PyIndex(tokens, num - 1)[1])[1]
                       IN [st EXCEPT !.last_subnet = PyIndex(tokens, num - 2)[1],
                                     !.last_ad = Some(adrd[1]), !.last_rd = Some(adrd[2])]
    IN IF parsed.exc # "none" THEN parsed
       ELSE IF PyIndex(tokens, num + 1) = NoTuple \/ PyIndex(tokens, num + 2) = NoTuple
       THEN Fail(st, "IndexError")
       ELSE [parsed EXCEPT !.subnet = parsed.last_subnet, !.ad = parsed.last_ad,
                           !.rd = parsed.last_rd,
                           !.gw = StripComma(PyIndex(tokens, num + 1)[1]),
                           !.adapter = StripComma(PyIndex(tokens, num + 2)[1]),
                           !.bound = TRUE]

\* lines 324-337, one turn for an 'is' token at 0-based index num (the loop has no break)
IsTurn(st, tokens, num) ==
    IF PyIndex(tokens, num - 2) = NoTuple THEN Fail(st, "IndexError")
    ELSE IF ParseADRD(PyIndex(tokens, num - 1)[1]) = NoTuple THEN Fail(st, "ValueError")
    ELSE IF PyIndex(tokens, num + 3) = NoTuple THEN Fail(st, "IndexError")
    ELSE LET adrd == ParseADRD(PyIndex(tokens, num - 1)[1])[1]
         IN [st EXCEPT !.subnet = PyIndex(tokens, num - 2)[1],
                       !.last_subnet = PyIndex(tokens, num - 2)[1],
                       !.ad = Some(adrd[1]), !.rd = Some(adrd[2]),
                       !.last_ad = Some(adrd[1]), !.last_rd = Some(adrd[2]),
                       !.gw = NoName,
                       !.adapter = StripComma(PyIndex(tokens, num + 3)[1]),
                       !.bound = TRUE]

RECURSIVE IsLoop(_, _, _)
IsLoop(st, tokens, todo) ==
    IF todo = {} \/ st.exc # "none" THEN st
    ELSE IsLoop(IsTurn(st, tokens, Min(todo) - 1), tokens, todo \ {Min(todo)})

\* lines 281-339: the fields of the line by its shape
Shape(st, proto, tokens) ==
    IF proto = "C"
    THEN IF Positions(tokens, "is") = {} THEN st
         ELSE Connected(st, tokens, Min(Positions(tokens, "is")) - 1)
    ELSE IF Positions(tokens, "via") # {}
    THEN Via(st, tokens, Min(Positions(tokens, "via")) - 1)
    ELSE IF Positions(tokens, "is") # {}
    THEN IsLoop(st, tokens, Positions(tokens, "is"))
    ELSE Fail(st, "NotImplementedError")

\* Emit without a record for a continuation line
EmitSkipsContinuation(st, proto, selected, fib) ==
    IF st.exc # "none" THEN st
    ELSE IF ~st.bound THEN Fail(st, "UnboundLocalError")
    ELSE IF st.cached THEN st
    ELSE [st EXCEPT !.out = Append(@, [protocol |-> proto, selected |-> selected, fib |-> fib,
                                       subnet |-> st.subnet, AD |-> st.ad, RD |-> st.rd,
                                       GW |-> st.gw, Int |-> st.adapter])]

\* lines 341-350: out.append of the record; the locals must have been assigned
Emit(st, proto, selected, fib) ==
    IF st.exc # "none" THEN st
    ELSE IF ~st.bound THEN Fail(st, "UnboundLocalError")
    ELSE [st EXCEPT !.out = Append(@, [protocol |-> proto, selected |-> selected, fib |-> fib,
                                       subnet |-> st.subnet, AD |-> st.ad, RD |-> st.rd,
                                       GW |-> st.gw, Int |-> st.adapter])]

\* The body of the loop for one data line (lines 260-350)
ProcessLine(st, tokens) ==
    LET chars == LineChars(tokens)
        coded == TypeCode(st, chars)
        proto == IF chars[1] = " " THEN st.last_proto ELSE chars[1]
    IN IF Len(chars) < 3 THEN Fail(st, "IndexError")
       ELSE Emit(Shape(coded, proto, tokens), proto, chars[2] = ">", chars[3] = "*")

RECURSIVE ProcessFrom(_, _, _)
ProcessFrom(st, in_lines, lineno) ==
    IF lineno > Len(in_lines) \/ st.exc # "none" THEN st
    ELSE ProcessFrom(ProcessLine(st, in_lines[lineno]), in_lines, lineno + 1)

\* _process_quagga_rt: the list of records, or the exception; emitted is the
\* local `out` as it stood when the call ended
_process_quagga_rt(in_lines) ==
    LET st == ProcessFrom(ParserStart, in_lines, HeaderLines + 1)
    IN [exc |-> st.exc, ret |-> IF st.exc = "none" THEN "list" ELSE "raise",
        emitted |-> st.out]

\* get_quagga_rt on the output lines of vtysh
get_quagga_rt(lines) ==
    IF Len(lines) < MinLines THEN [exc |-> "none", ret |-> "None", emitted |-> << >>]
    ELSE _process_quagga_rt(lines)

\* The lines vtysh may print
LineHeader == <<"Codes:">>
LineVia == <<"O>*", "10.0.0.0/24", "[110/20]", "via", "10.0.1.1,", "eth0,", "00:01:02">>
LineViaOther == <<"O", "", "", "10.0.1.0/24", "[110/10]", "via", "10.0.2.1,", "eth1,", "00:01:02">>
LineViaMore == <<"", "", "*", "", "via", "10.0.2.1,", "eth1,", "00:01:02">>
LineConnected == <<"C>*", "10.0.1.0/24", "is", "directly", "connected,", "eth0">>
LineIs == <<"O", "", "", "10.0.1.0/24", "[110/10]", "is", "directly", "connected,", "eth0,", "00:01:02">>
LineIsMore == <<"", "", "*", "", "is", "directly", "connected,", "eth1">>
LineIsMoreOwn == <<"", "", "*", "10.0.1.0/24", "[110/10]", "is", "directly", "connected,", "eth1,">>
LineUnreachable == <<"S>*", "10.0.0.0/24", "[110/20]", "unreachable">>
LineConnectedOdd == <<"C>*", "10.0.0.0/24", "unreachable">>
LineEmpty == <<"">>

DataLines == {LineVia, LineViaOther, LineViaMore, LineConnected, LineIs, LineIsMore,
              LineIsMoreOwn, LineUnreachable, LineConnectedOdd, LineEmpty}

\* Outputs: up to HeaderLines header lines alone, or the header and up to MaxData data lines
QuaggaOutputs ==
    {[i \in 1..h |-> LineHeader] : h \in 0..HeaderLines}
    \cup {[i \in 1..HeaderLines |-> LineHeader] \o d : d \in SeqsUpTo(DataLines, MaxData)}

NoResult == [exc |-> "none", ret |-> "idle", emitted |-> << >>]

GetQuaggaRt(lines) ==
    /\ qlines' = lines
    /\ qres' = get_quagga_rt(lines)
    /\ UNCHANGED <<topoVars, obs, costq, klines, kres, instVars>>

QuaggaDone ==
    /\ qres # NoResult
    /\ qlines' = << >>
    /\ qres' = NoResult
    /\ UNCHANGED <<topoVars, obs, costq, klines, kres, instVars>>

NextQuagga ==
    \/ qres = NoResult /\ \E lines \in QuaggaOutputs : GetQuaggaRt(lines)
    \/ QuaggaDone

SpecQuagga == Init /\ [][NextQuagga]_vars

----------------------------------------------------------------------------
(* nethelpers: the kernel routing-table parser.  A line of /proc/net/route  *)
(* is the sequence of its words, str_line.split('\t'), without the newline  *)
(* that ends the line and so ends its last word.                            *)

MaxRtLines == 3
MaxColumns == 11

\* binascii.unhexlify(word): the bytes, or NoTuple for binascii.Error
Unhexlify(word) ==
    CASE word = "00000000" -> Some(<<0, 0, 0, 0>>)
      [] word = "0100A8C0" -> Some(<<1, 0, 168, 192>>)
      [] word = "00FFFFFF" -> Some(<<0, 255, 255, 255>>)
      [] word = "0003" -> Some(<<0, 3>>)
      [] word = "0100A8C000" -> Some(<<1, 0, 168, 192, 0>>)
      [] OTHER -> NoTuple

\* int(word): the number, or NoTuple for ValueError
IntOf(word) ==
    CASE word = "0" -> Some(0)
      [] word = "0003" -> Some(3)
      [] word = "00000000" -> Some(0)
      [] OTHER -> NoTuple

\* int.from_bytes(bytes, byteorder), the number written as its bytes from
\* the most significant one, without leading zero bytes
RECURSIVE Reverse(_)
Reverse(bytes) ==
    IF bytes = << >> THEN << >> ELSE Append(Reverse(Tail(bytes)), bytes[1])

RECURSIVE Significant(_)
Significant(bytes) ==
    IF bytes # << >> /\ bytes[1] = 0 THEN Significant(Tail(bytes)) ELSE bytes

FromBytes(bytes, byteorder) ==
    Significant(IF byteorder = "little" THEN Reverse(bytes) ELSE bytes)

\* str(ipaddress.IPv4Address(addr)) for addr below 2^32: the four numbers of
\* the dotted form
IPv4Address(addr) ==
    [i \in 1..4 |-> IF i + Len(addr) > 4 THEN addr[i + Len(addr) - 4] ELSE 0]

\* lines 48-50: a column holding an address
AddressColumn(st, key, word, last, byteorder) ==
    IF last \/ Unhexlify(word) = NoTuple THEN Fail(st, "binascii.Error")
    ELSE IF Len(FromBytes(Unhexlify(word)[1], byteorder)) > 4
    THEN Fail(st, "AddressValueError")
    ELSE [st EXCEPT !.rec = (key :> IPv4Address(FromBytes(Unhexlify(word)[1], byteorder))) @@ @]

\* lines 54-61: the flags column
FlagsColumn(st, word) ==
    IF IntOf(word) = NoTuple THEN Fail(st, "ValueError")
    ELSE LET int_flags == IntOf(word)[1]
             u == IF int_flags % 2 = 1 THEN <<"U">> ELSE << >>
             g == IF (int_flags \div 2) % 2 = 1 THEN <<"G">> ELSE << >>
         IN [st EXCEPT !.rec = ("flags" :> (u \o g)) @@ @]

\* a column holding a number
IntColumn(st, key, word) ==
    IF IntOf(word) = NoTuple THEN Fail(st, "ValueError")
    ELSE [st EXCEPT !.rec = (key :> IntOf(word)[1]) @@ @]

\* lines 45-78: the word at 0-based column index; last: it ends the line
Column(st, index, word, last, byteorder) ==
    CASE index = 0 -> [st EXCEPT !.rec = ("ifname" :> (IF last THEN word \o "\n" ELSE word)) @@ @]
      [] index = 1 -> AddressColumn(st, "destination", word, last, byteorder)
      [] index = 2 -> AddressColumn(st, "gateway", word, last, byteorder)
      [] index = 3 -> FlagsColumn(st, word)
      [] index = 4 -> IntColumn(st, "refcnt", word)
      [] index = 5 -> IntColumn(st, "use", word)
      [] index = 6 -> IntColumn(st, "metric", word)
      [] index = 7 -> AddressColumn(st, "mask", word, last, byteorder)
      [] index = 8 -> IntColumn(st, "mtu", word)
      [] index = 9 -> IntColumn(st, "window", word)
      [] index = 10 -> IntColumn(st, "irtt", word)
      [] OTHER -> [st EXCEPT !.logged = @ + 1]

RECURSIVE Columns(_, _, _, _)
Columns(st, words, index, byteorder) ==
    IF index >= Len(words) \/ st.exc # "none" THEN st
    ELSE Columns(Column(st, index, words[index + 1], index + 1 = Len(words), byteorder),
                 words, index + 1, byteorder)

\* _parse_rt_line: the record, the exception raised, the errors logged
_parse_rt_line(words, byteorder) ==
    Columns([rec |-> << >>, exc |-> "none", logged |-> 0], words, 0, byteorder)

RECURSIVE TableFrom(_, _, _, _)
TableFrom(t, lines, lineno, byteorder) ==
    IF lineno > Len(lines) \/ t.exc # "none" THEN t
    ELSE IF lineno = 1 \/ lines[lineno] = <<"">>
    THEN TableFrom(t, lines, lineno + 1, byteorder)
    ELSE LET parsed == _parse_rt_line(lines[lineno], byteorder)
         IN TableFrom([exc |-> parsed.exc,
                       ret |-> IF parsed.exc = "none" THEN "list" ELSE "raise",
                       emitted |-> IF parsed.exc = "none" THEN Append(t.emitted, parsed.rec)
                                   ELSE t.emitted,
                       logged |-> t.logged + parsed.logged],
                      lines, lineno + 1, byteorder)

\* get_routing_table: rt_entries, or the exception; logged counts the errors logged
get_routing_table(lines, byteorder) ==
    TableFrom([exc |-> "none", ret |-> "list", emitted |-> << >>, logged |-> 0],
              lines, 1, byteorder)

\* The lines /proc/net/route may hold
RtHeader == <<"Iface", "Destination">>
RtRoute == <<"eth0", "00000000", "0100A8C0", "0003", "0", "0", "0", "00FFFFFF", "0", "0", "0">>
RtExtra == RtRoute \o <<"0">>
RtNoMask == SubSeq(RtRoute, 1, 7)
RtMaskLast == SubSeq(RtRoute, 1, 8)
RtBadAddress == <<"eth0", "eth0", "0100A8C0", "0003", "0", "0", "0", "00FFFFFF", "0", "0", "0">>
RtBadNumber == <<"eth0", "0003", "00000000", "00FFFFFF", "0", "0", "0", "00FFFFFF", "0", "0", "0">>
RtLongAddress == <<"eth0", "0100A8C000", "0100A8C0", "0003", "0", "0", "0", "00FFFFFF", "0", "0", "0">>
RtBlank == <<"">>

RtLines == {RtRoute, RtExtra, RtNoMask, RtMaskLast, RtBadAddress, RtBadNumber,
            RtLongAddress, RtBlank}

RouteFiles ==
    {<< >>} \cup {<<RtHeader>> \o d : d \in SeqsUpTo(RtLines, MaxRtLines)}

ByteOrders == {"little", "big"}

NoTable == [exc |-> "none", ret |-> "idle", emitted |-> << >>, logged |-> 0]

GetRoutingTable(lines, byteorder) ==
    /\ klines' = lines
    /\ kres' = get_routing_table(lines, byteorder)
    /\ UNCHANGED <<topoVars, obs, costq, qlines, qres, instVars>>

RoutingDone ==
    /\ kres # NoTable
    /\ klines' = << >>
    /\ kres' = NoTable
    /\ UNCHANGED <<topoVars, obs, costq, qlines, qres, instVars>>

NextKernel ==
    \/ kres = NoTable /\ \E lines \in RouteFiles, byteorder \in ByteOrders :
                             GetRoutingTable(lines, byteorder)
    \/ RoutingDone

SpecKernel == Init /\ [][NextKernel]_vars

----------------------------------------------------------------------------
(* Claims about the topology model *)

\* Both endpoints of every link have an owning device.
LinksResolve(b, m) ==
    \A i \in 1..Len(b) :
        /\ _get_device_from_globname(m, b[i][1]) # NoTuple
        /\ _get_device_from_globname(m, b[i][2]) # NoTuple

\* No global adapter name occurs in two links.
OneLinkPerAdapter(b) ==
    \A i, j \in 1..Len(b) : i # j => {b[i][1], b[i][2]} \cap {b[j][1], b[j][2]} = {}

\* C1 (as claimed): while load_data runs on a model that already holds a
\* topology, every query of a reader gives the result of the complete old
\* snapshot or of the complete new one, and the new one is never seen flagged
\* valid before _validate has run on it.
C1_ReloadAtomic ==
    [][(obs' # obs /\ pc # "idle" /\ committed # EmptyDesc) =>
        LET old == QueryResult(obs'.op, obs'.arg, committed.links, committed.names)
            new == QueryResult(obs'.op, obs'.arg, data.links, data.names)
        IN \/ obs'.res = old
           \/ obs'.res = new /\ (obs'.valid => pc = "validated")]_vars

\* C2 (as claimed): once load_data has returned, the valid flag is true only
\* when both endpoints of every link resolve to an owning device.
C2_DanglingLinkInvalid ==
    (pc = "idle" /\ valid) => LinksResolve(bridges, mappings)

\* C5 (as claimed): for every link (a,b) of the loaded link mapping, whatever
\* the other links are, the peer of a is b and the peer of b is a.
C5_PeerSymmetricAnyLinks ==
    obs.op = "peer" =>
        \A i \in 1..Len(bridges) :
            /\ bridges[i][1] = obs.arg[1] => obs.res = Some(bridges[i][2])
            /\ bridges[i][2] = obs.arg[1] => obs.res = Some(bridges[i][1])

\* C5 (amended): in a link mapping where no global adapter name occurs in
\* more than one link, for every link (a,b) the peer of a is b and the peer
\* of b is a.
C5_PeerSymmetric ==
    (obs.op = "peer" /\ OneLinkPerAdapter(bridges)) =>
        \A i \in 1..Len(bridges) :
            /\ bridges[i][1] = obs.arg[1] => obs.res = Some(bridges[i][2])
            /\ bridges[i][2] = obs.arg[1] => obs.res = Some(bridges[i][1])

\* C5 witness: the peer of the second member of the second of two disjoint
\* links has been looked up and is the link's first member.
C5_Witness ==
    /\ obs.op = "peer"
    /\ Len(bridges) = 2
    /\ OneLinkPerAdapter(bridges)
    /\ bridges[2][1] # bridges[2][2]
    /\ obs.arg[1] = bridges[2][2]
    /\ obs.res = Some(bridges[2][1])

\* The global names of the adapters of a device; none for an unknown device
GlobalsOf(m, device) ==
    IF ~HasNode(m, device) THEN {}
    ELSE {NodeAdapters(m, device)[k][1] : k \in 1..Len(NodeAdapters(m, device))}

\* Some link joins an adapter of device_a with an adapter of device_b
Joined(b, m, device_a, device_b) ==
    \E i \in 1..Len(b) :
        \/ b[i][1] \in GlobalsOf(m, device_a) /\ b[i][2] \in GlobalsOf(m, device_b)
        \/ b[i][2] \in GlobalsOf(m, device_a) /\ b[i][1] \in GlobalsOf(m, device_b)

\* No global adapter name is in the adapter lists of two devices
OneOwnerPerAdapter(m) ==
    \A i, j \in 1..Len(m) :
        (i # j) => GlobalsOf(m, m[i].host) \cap GlobalsOf(m, m[j].host) = {}

IsEntry(m, device, entry) ==
    /\ HasNode(m, device)
    /\ \E k \in 1..Len(NodeAdapters(m, device)) : NodeAdapters(m, device)[k] = entry

\* What C11 says of the result res of get_adapter_names(device_a, device_b)
AdapterNamesRight(b, m, device_a, device_b, res) ==
    /\ (res # NoTuple) <=> Joined(b, m, device_a, device_b)
    /\ (res # NoTuple) =>
           /\ IsEntry(m, device_a, res[1])
           /\ IsEntry(m, device_b, res[2])
           /\ \E i \in 1..Len(b) : {b[i][1], b[i][2]} = {res[1][1], res[2][1]}

\* C11 (as claimed): on every loaded topology get_adapter_names(a, b) has a
\* result exactly when some link joins an adapter of a with an adapter of b,
\* and the result names an entry of each device's list and an existing link.
C11_AdapterNamesAnyTopology ==
    obs.op = "adapters" =>
        AdapterNamesRight(bridges, mappings, obs.arg[1], obs.arg[2], obs.res[1])

\* C11 (amended): the same on a topology where no global adapter name is in
\* more than one link or in the adapter lists of more than one device.
C11_AdapterNames ==
    (obs.op = "adapters" /\ OneLinkPerAdapter(bridges) /\ OneOwnerPerAdapter(mappings)) =>
        AdapterNamesRight(bridges, mappings, obs.arg[1], obs.arg[2], obs.res[1])

\* C11 witness: on such a topology with two links the adapters joining two
\* different devices have been found through the second link.
C11_Witness ==
    /\ obs.op = "adapters"
    /\ OneLinkPerAdapter(bridges)
    /\ OneOwnerPerAdapter(mappings)
    /\ Len(bridges) = 2
    /\ obs.arg[1] # obs.arg[2]
    /\ obs.res[1] # NoTuple
    /\ {bridges[2][1], bridges[2][2]} = {obs.res[1][1][1], obs.res[1][2][1]}
    /\ ~Joined(<<bridges[1]>>, mappings, obs.arg[1], obs.arg[2])

\* What instance j holds: its links, its names and its valid flag
InstanceView(st, j) ==
    <<GetAttr(st, j, "_bridges"), GetAttr(st, j, "_mappings"), GetAttr(st, j, "valid")>>

InstanceQueries ==
    {<<"peer", <<g>>>> : g \in Globals}
    \cup {<<"device", <<g>>>> : g \in Globals}
    \cup {<<"adapters", p>> : p \in Devices \X Devices}
    \cup {<<"remote", p>> : p \in Devices \X Locals}

\* The result of every query on instance j
QueriesOf(st, j) ==
    [q \in InstanceQueries |->
        QueryResult(q[1], q[2], GetAttr(st, j, "_bridges"), GetAttr(st, j, "_mappings"))]

\* C14: a step of load_data on one instance leaves the links, the names, the
\* valid flag and every query result of the other instance as they were, and
\* a query leaves the links and names of every instance as they were.
C14_InstancesOwnState ==
    [][/\ \A i, j \in Instances :
              (i # j /\ ipc'[i] # ipc[i]) =>
                  /\ InstanceView(store', j) = InstanceView(store, j)
                  /\ QueriesOf(store', j) = QueriesOf(store, j)
       /\ (iobs' # iobs) =>
              \A j \in Instances :
                  /\ GetAttr(store', j, "_bridges") = GetAttr(store, j, "_bridges")
                  /\ GetAttr(store', j, "_mappings") = GetAttr(store, j, "_mappings")]_vars

\* C14 witness: instance a holds the line topology and is valid, instance b
\* is in the middle of loading the pair, and a query on a has given the peer
\* of g3, which only a's links hold.
C14_Witness ==
    /\ ipc["a"] = "idle"
    /\ InstanceView(store, "a") = <<TopoLine.links, TopoLine.names, TRUE>>
    /\ ipc["b"] = "names"
    /\ InstanceView(store, "b") = <<TopoPair.links, TopoPair.names, FALSE>>
    /\ iobs = [inst |-> "a", op |-> "peer", arg |-> <<"g3">>, res |-> Some("g4")]

\* The positions <<host index, adapter index>> of all the adapter list entries
Entries(m) ==
    UNION {{<<i, k>> : k \in 1..Len(m[i].adapters)} : i \in 1..Len(m)}

\* No two adapters have the same global name
UniqueGlobals(m) ==
    \A e, f \in Entries(m) :
        (e # f) => m[e[1]].adapters[e[2]][1] # m[f[1]].adapters[f[2]][1]

\* No two adapters of a device have the same local name
UniqueLocals(m) ==
    \A e, f \in Entries(m) :
        (e # f /\ e[1] = f[1]) => m[e[1]].adapters[e[2]][2] # m[f[1]].adapters[f[2]][2]

\* The topology passed validation and its names are unique
WellFormed(b, m) ==
    /\ LinksResolve(b, m)
    /\ OneLinkPerAdapter(b)
    /\ UniqueGlobals(m)
    /\ UniqueLocals(m)

\* Device d has an adapter with local name l that is on a link
OnLink(b, m, d, l) ==
    /\ HasNode(m, d)
    /\ \E k \in 1..Len(NodeAdapters(m, d)) :
           /\ NodeAdapters(m, d)[k][2] = l
           /\ \E i \in 1..Len(b) : NodeAdapters(m, d)[k][1] \in {b[i][1], b[i][2]}

----------------------------------------------------------------------------
(* Claims about the residual-bandwidth provider *)

\* Some segment of the path is not user-to-user: its cost comes from the
\* adapters get_adapter_names finds in the topology.
UsesAdapterLookup(net, path) ==
    \E i \in 1..(Len(path) - 1) :
        ~(net.types[path[i]] = "user" /\ net.types[path[i + 1]] = "user")

\* C3 (as claimed): a get_cost that ran while the valid flag was false gives
\* no cost entry that rests on the topology's adapter lookups.
C3_InvalidTopologyNoCost ==
    (costq.op = "get_cost" /\ ~costq.valid /\ costq.out.exc = "none") =>
        \A src \in DOMAIN costq.out.val : \A dst \in DOMAIN costq.out.val[src] :
            ~UsesAdapterLookup(costq.net, dev_to_dev_iterator(costq.net.up, src, dst))

\* C4 (as claimed): get_cost completes with a Cost Result for every list of
\* sources and destinations, whatever paths the resolver gives.
C4_GetCostCompletes ==
    costq.op = "get_cost" => costq.out.exc = "none"

\* The segments of the path of the last call, and what the claim says of them
Segments(q) == 1..(Len(q.path) - 1)
RawCapacity(q, i) == get_link_capacity(q.net.caps, q.path[i], q.path[i + 1])
Connecting(q, i) == get_adapter_names(bridges, mappings, q.path[i], q.path[i + 1])
SegmentsKnown(q) ==
    \A i \in Segments(q) : RawCapacity(q, i) # NoTuple /\ Connecting(q, i) # NoTuple

\* The load sample the documentation names for segment i: the sender's
\* transmit load when the receiver is a user device, else the receiver's
\* receive load; an absent sample is no load.
SegmentLoad(q, i) ==
    LET key == IF q.net.types[q.path[i + 1]] = "user"
               THEN <<q.path[i], Connecting(q, i)[1][2], "tx">>
               ELSE <<q.path[i + 1], Connecting(q, i)[2][2], "rx">>
    IN IF q.net.types[q.path[i]] = "user" /\ q.net.types[q.path[i + 1]] = "user" THEN 0
       ELSE IF key \in DOMAIN q.net.loads THEN q.net.loads[key] ELSE 0

SegmentCost(q, i) ==
    IF RawCapacity(q, i)[1] - SegmentLoad(q, i) < 0 THEN 0
    ELSE RawCapacity(q, i)[1] - SegmentLoad(q, i)

\* C9: for a path of two or more devices whose segments all have a known
\* capacity and connecting adapters, get_residual_bw_for_path returns the
\* least segment cost, which is at least zero and at most the least raw
\* capacity of the segments.
C9_ResidualIsBottleneck ==
    (costq.op = "residual" /\ Len(costq.path) >= 2 /\ SegmentsKnown(costq)) =>
        /\ costq.out.exc = "none"
        /\ costq.out.val # NoTuple
        /\ \E i \in Segments(costq) : costq.out.val[1] = SegmentCost(costq, i)
        /\ \A i \in Segments(costq) : costq.out.val[1] <= SegmentCost(costq, i)
        /\ costq.out.val[1] >= 0
        /\ \A i \in Segments(costq) : costq.out.val[1] <= RawCapacity(costq, i)[1]

\* C9 witness: a path of three devices, both segments loaded, the cost of the
\* second segment below that of the first and below its raw capacity.
C9_Witness ==
    /\ costq.op = "residual"
    /\ Len(costq.path) = 3
    /\ SegmentsKnown(costq)
    /\ SegmentLoad(costq, 1) > 0
    /\ SegmentLoad(costq, 2) > 0
    /\ SegmentCost(costq, 2) < SegmentCost(costq, 1)
    /\ SegmentCost(costq, 2) < RawCapacity(costq, 2)[1]
    /\ costq.out = Return(Some(SegmentCost(costq, 2)))

\* l1 is at most l2 on every adapter, an absent sample counting as no load
LoadOf(l, k) == IF k \in DOMAIN l THEN l[k] ELSE 0
LoadsLeq(l1, l2) == \A k \in LoadKeys : LoadOf(l1, k) <= LoadOf(l2, k)

\* C10: with the path, the capacities and the device classes fixed, the cost
\* under loads that are nowhere higher is nowhere lower.
C10_MonotoneInLoad ==
    (costq.op = "residual" /\ costq.out.exc = "none" /\ costq.out.val # NoTuple) =>
        \A l \in LoadMaps :
            LoadsLeq(l, costq.net.loads) =>
                LET lower == get_residual_bw_for_path(bridges, mappings,
                                 [costq.net EXCEPT !.loads = l], costq.path)
                IN /\ lower.exc = "none"
                   /\ lower.val # NoTuple
                   /\ lower.val[1] >= costq.out.val[1]

\* C10 witness: a cost was computed under loads that can be lowered, and
\* lowering them raises it.
C10_Witness ==
    /\ costq.op = "residual"
    /\ costq.out.exc = "none"
    /\ costq.out.val # NoTuple
    /\ Len(costq.path) = 3
    /\ \E l \in LoadMaps :
        /\ LoadsLeq(l, costq.net.loads)
        /\ l # costq.net.loads
        /\ get_residual_bw_for_path(bridges, mappings,
               [costq.net EXCEPT !.loads = l], costq.path).val[1] > costq.out.val[1]

\* The costmap of the request in costq and the cost computed for a pair of it
CostMap == costq.out.val
HasCost(src, dst) == PairCost(bridges, mappings, costq.net, src, dst).val # NoTuple

\* C12: in the costmap get_cost returns, a source is present exactly when
\* one of its destinations got a cost, no source maps to an empty mapping,
\* and every pair that got a cost, 0 included, is under its source with it.
C12_SourcesWithCosts ==
    (costq.op = "get_cost" /\ costq.out.exc = "none") =>
        /\ DOMAIN CostMap \subseteq costq.srcs
        /\ \A src \in costq.srcs :
               /\ (src \in DOMAIN CostMap) <=> (\E dst \in costq.dsts : HasCost(src, dst))
               /\ (src \in DOMAIN CostMap) => DOMAIN CostMap[src] # {}
               /\ \A dst \in costq.dsts :
                      HasCost(src, dst) =>
                          /\ src \in DOMAIN CostMap
                          /\ dst \in DOMAIN CostMap[src]
                          /\ Some(CostMap[src][dst]) =
                                 PairCost(bridges, mappings, costq.net, src, dst).val

\* C12 witness: a costmap has been returned that leaves out one of two
\* sources and holds the cost 0 for the other.
C12_Witness ==
    /\ costq.op = "get_cost"
    /\ costq.out.exc = "none"
    /\ \E src \in costq.srcs : src \notin DOMAIN CostMap
    /\ \E src \in DOMAIN CostMap : \E dst \in DOMAIN CostMap[src] : CostMap[src][dst] = 0

----------------------------------------------------------------------------
(* Claims about the router-CLI parser *)

\* The data lines of the parsed output, after the header
DataCount == IF Len(qlines) > HeaderLines THEN Len(qlines) - HeaderLines ELSE 0
DataLine(i) == qlines[HeaderLines + i]

IsContinuation(tokens) == LineChars(tokens) # << >> /\ LineChars(tokens)[1] = " "

\* The non-continuation data lines before line i
RouteLinesBefore(i) == {j \in 1..(i - 1) : ~IsContinuation(DataLine(j))}

\* The type code in force at data line i: its own, or that of the route it continues
CodeAt(i) ==
    IF IsContinuation(DataLine(i))
    THEN IF RouteLinesBefore(i) = {} THEN NoName
         ELSE LineChars(DataLine(Max(RouteLinesBefore(i))))[1]
    ELSE IF LineChars(DataLine(i)) = << >> THEN NoName
    ELSE LineChars(DataLine(i))[1]

HasToken(tokens, word) == \E k \in 1..Len(tokens) : tokens[k] = word

\* Connected code with an 'is' token; otherwise a 'via' token; otherwise an 'is' token
Recognised(i) ==
    IF CodeAt(i) = "C" THEN HasToken(DataLine(i), "is")
    ELSE HasToken(DataLine(i), "via") \/ HasToken(DataLine(i), "is")

\* The parser got as far as data line i
Reached(i) == qres.ret \in {"list", "raise"} /\ Len(qres.emitted) >= i - 1

\* C6: when the parse returns its records, the record of every continuation
\* line has the subnet, AD and RD of the record of the most recent
\* non-continuation line before it, whatever the shapes of the two lines
C6_ContinuationInherits ==
    qres.ret = "list" =>
        \A i \in 1..DataCount :
            (IsContinuation(DataLine(i)) /\ RouteLinesBefore(i) # {}) =>
                LET mine == qres.emitted[i]
                    route == qres.emitted[Max(RouteLinesBefore(i))]
                IN /\ mine.subnet = route.subnet
                   /\ mine.AD = route.AD
                   /\ mine.RD = route.RD

\* C7: a data line of no recognised shape makes the call fail and puts no
\* record for that line in the list, so that no record repeats the values
\* of an earlier line
C7_UnrecognisedLineFails ==
    \A i \in 1..DataCount :
        (Reached(i) /\ ~Recognised(i)) =>
            /\ qres.ret = "raise"
            /\ Len(qres.emitted) = i - 1

\* C13: get_quagga_rt returns None for fewer than 5 lines; for 5 lines or
\* more it returns a list or raises, and a list it returns has one record
\* for each line after the first 4, in the order of the lines: the record at
\* position i has the type code and the selected and FIB marks of data line i.
C13_OneRecordPerLine ==
    (qres.ret # "idle") =>
        /\ (Len(qlines) < 5) <=> (qres.ret = "None")
        /\ (qres.ret = "list") =>
               /\ Len(qres.emitted) = Len(qlines) - 4
               /\ \A i \in 1..Len(qres.emitted) :
                      /\ qres.emitted[i].protocol = CodeAt(i)
                      /\ qres.emitted[i].selected = (LineChars(qlines[4 + i])[2] = ">")
                      /\ qres.emitted[i].fib = (LineChars(qlines[4 + i])[3] = "*")

\* C13 witness: three data lines, one of them a continuation line, have
\* given a list of three records.
C13_Witness ==
    /\ qres.ret = "list"
    /\ Len(qlines) = 7
    /\ Len(qres.emitted) = 3
    /\ \E i \in 1..3 : IsContinuation(DataLine(i))
    /\ \E i \in 1..3 : qres.emitted[i].selected

----------------------------------------------------------------------------
(* Claims about the kernel routing-table parser *)

\* The lines of the file that are handed to _parse_rt_line
ParsedLines == {i \in 2..Len(klines) : klines[i] # <<"">>}

\* C8: a line with more than 11 columns makes the parse fail, so that no
\* routing table is returned for a file that holds such a line
C8_ExtraColumnFails ==
    (\E i \in ParsedLines : Len(klines[i]) > MaxColumns) => kres.ret = "raise"

====
